---- MODULE Spec2Model ----
\* The `run` command of llmtune/cli/toolkit.py and the staged pipeline
\* run_one_experiment, over a filesystem of experiment directories.
EXTENDS Naturals, Integers, Sequences, FiniteSets, TLC

\* ---------------------------------------------------------------- bounds
\* Longest candidate list of the swept parameter a.
MaxCand == 2
\* Number of times the run command is started.
MaxRuns == 2

\* ---------------------------------------------------------------- data
\* The default argument of the run command.
ConfigPath == "./config.yml"

\* An absent file is the empty sequence, a present one holds its content.
Absent == <<>>

\* The three stages' names.
Stages == {"dataset", "finetune", "inference"}

\* The values of the swept parameter a; validation rejects 0.
AValues == {0, 1, 2}

\* The candidate lists of the swept parameter a: the runs <<v, v+1, ..>> of
\* at most n values, counted round the three values 0, 1, 2.
ALists(n) ==
    {[i \in 1..k |-> (v + i - 1) % 3] : v \in AValues, k \in 0..n}


\* The candidate lists of the swept parameter b.
BLists == {<<1>>, <<1, 2>>}

\* The values of the non-swept field c.
CValues == {"x", "y"}

\* The forms the ablation section of a raw mapping takes.
AblationForms == {"no_section", "no_flag", "false", "true"}

\* Raw mappings as yaml.safe_load returns them. A swept field holds its list
\* of candidates; a scalar is the one-element list.
RawConfigs ==
    [a : ALists(MaxCand), b : BLists,
     c : CValues, ablation : AblationForms]

\* config.get("ablation", {}).get("use_ablate", False)
UseAblate(raw) == raw.ablation = "true"

\* generate_permutations: the cross-product of the candidate lists, in the
\* order of the declared parameters (a, then b) and of the candidates.
generate_permutations(raw) ==
    [k \in 1..(Len(raw.a) * Len(raw.b)) |->
        [raw EXCEPT !.a = <<raw.a[((k - 1) \div Len(raw.b)) + 1]>>,
                    !.b = <<raw.b[((k - 1) % Len(raw.b)) + 1]>>]]

\* The mutant of Expand: the sweep is requested whenever the section is there.
ExpandIfSection(raw) ==
    IF raw.ablation # "no_section" THEN generate_permutations(raw) ELSE <<raw>>

\* The mutant of Expand: the branches of the conditional are swapped.
ExpandSwapped(raw) == IF UseAblate(raw) THEN <<raw>> ELSE generate_permutations(raw)

\* The expression of lines 103-105.
Expand(raw) == IF UseAblate(raw) THEN generate_permutations(raw) ELSE <<raw>>

\* Whether Config(**raw) accepts the mapping: a and b are scalars, a positive.
IsValid(raw) == Len(raw.a) = 1 /\ Len(raw.b) = 1 /\ raw.a[1] >= 1 /\ raw.b[1] >= 1

\* Config(**raw) on an accepted mapping: the typed configuration, defaults filled.
Validate(raw) ==
    [a |-> raw.a[1], b |-> raw.b[1],
     c |-> raw.c,
     use_ablate |-> UseAblate(raw)]

\* config.model_dump(), as yaml.dump writes it to config_file.
model_dump(cfg) ==
    [a |-> <<cfg.a>>, b |-> <<cfg.b>>, c |-> cfg.c,
     ablation |-> IF cfg.use_ablate THEN "true" ELSE "false"]

\* The experiment root DirectoryHelper derives from the source path and the
\* content of the configuration.
RootOf(path, content) == [src |-> path, key |-> content]

\* A directory that holds no artifact yet.
NoDir == [exists |-> FALSE, files |-> {}]
EmptyRoot == [config_file |-> Absent, dataset |-> Absent, weights |-> NoDir,
              results_file |-> Absent]

\* DirectoryHelper.__init__: the root is created and, when config_file is not
\* there yet, the configuration is written to it.
Materialize(f, root, content) ==
    IF root \in DOMAIN f
    THEN IF f[root].config_file = Absent
         THEN [f EXCEPT ![root].config_file = <<content>>]
         ELSE f
    ELSE f @@ (root :> [EmptyRoot EXCEPT !.config_file = <<content>>])

\* The splits the dataset collaborator can return: each may be empty.
TrainSplits == {<<>>, <<"ex1", "ex2">>}
TestSplits == {<<>>, <<"ex3">>}

\* The files the fine-tuning collaborator writes into paths.weights.
WeightFiles == {"checkpoint", "adapter"}

\* Path.exists() of a file artifact.
Exists(file) == file # Absent

\* any(weights_path.iterdir())
AnyIterdir(w) == w.files # {}

\* ---------------------------------------------------------------- state
VARIABLES
    inputFile,  \* the file at ConfigPath: Absent or <<raw mapping>>
    fs,         \* experiment root -> its config_file, dataset, weights, results_file
    pc,         \* the position of the run command
    configs,    \* the list the loop of line 106 iterates over
    idx,        \* the index of the current sweep member in configs
    config,     \* the loop variable: <<>> while it holds the raw mapping, else <<typed>>
    runRoot,    \* the root of dir_helper in run (line 113): <<>> or <<root>>
    expRoot,    \* the root of dir_helper in run_one_experiment (line 38)
    splits,     \* train, test of run_one_experiment: <<>> or <<train, test>>
    runs,       \* how many times the run command was started
    calls,      \* this run's calls: pairs <<idx, callee>>
    seen,       \* the current member's artifacts as each stage found them
    done,       \* the stages of the current member that are Done
    err,        \* <<>> or <<the call that raised, idx>>, of the exception that ended the run
    fresh,      \* whether the current member's root did not exist before line 113
    base,       \* <<fs>> as the previous run left it, when it ended normally and nothing changed since
    crash,      \* <<>> or the record of the crash this run retries
    resumed,    \* whether this run entered the pipeline in the crashed member's root
    peer        \* a second process in run_one_experiment for the same configuration

prog == <<pc, configs, idx, config, runRoot, expRoot, splits>>
hist == <<calls, seen, done, err, fresh, base, crash, resumed>>
env == <<inputFile, runs, peer>>
vars == <<fs, prog, hist, env>>

\* No second process runs.
NoPeer == [pc |-> "off", root |-> <<>>, splits |-> <<>>, calls |-> {}]

\* ---------------------------------------------------------------- positions
\* Between two runs of the command.
Idle == {"idle", "done", "raised", "crashed"}
\* Inside run_one_experiment (lines 37-84).
InPipeline ==
    {"dataset", "get_dataset", "save_dataset", "display", "weights", "finetune",
     "save_model", "results", "infer_all"}
\* From the reload of line 116 to the end of the pipeline: config_file is written.
AfterResolve == {"reload", "enter"} \cup InPipeline

NotSeen == [dataset |-> <<>>, finetune |-> <<>>, inference |-> <<>>]

\* The content DirectoryHelper persists for the loop variable: the dump of the
\* typed configuration, or the raw mapping when validation left it in place.
ContentOf(cfg, raw) == IF cfg = <<>> THEN raw ELSE model_dump(cfg[1])

\* The mutant of Raise: the exception is swallowed and the run goes on with
\* the next sweep member.
RaiseSwallowed(callee) ==
    /\ pc' = "loop"
    /\ err' = <<callee, idx>>

\* An exception leaves the run command: nothing catches it.
Raise(callee) ==
    /\ pc' = "raised"
    /\ err' = <<callee, idx>>

\* The locals of one sweep member are dead.
ForgetMember ==
    /\ config' = <<>>
    /\ runRoot' = <<>>
    /\ expRoot' = <<>>
    /\ splits' = <<>>
    /\ seen' = NotSeen
    /\ done' = {}
    /\ fresh' = FALSE

\* Nothing of the process is left.
ForgetRun ==
    /\ ForgetMember
    /\ configs' = <<>>
    /\ idx' = 0
    /\ calls' = {}
    /\ err' = <<>>
    /\ base' = <<>>
    /\ resumed' = FALSE

Init ==
    /\ inputFile \in {<<r>> : r \in {x \in RawConfigs : x.c = "x" /\ Len(x.b) = 1}}
    /\ fs = [r \in {} |-> EmptyRoot]
    /\ pc = "idle"
    /\ configs = <<>>
    /\ idx = 0
    /\ config = <<>>
    /\ runRoot = <<>>
    /\ expRoot = <<>>
    /\ splits = <<>>
    /\ runs = 0
    /\ calls = {}
    /\ seen = NotSeen
    /\ done = {}
    /\ err = <<>>
    /\ fresh = FALSE
    /\ base = <<>>
    /\ crash = <<>>
    /\ resumed = FALSE
    /\ peer = NoPeer

\* ---------------------------------------------------------------- run
\* Lines 98-105: the command starts, opens the input file and expands it.
StartRun ==
    /\ pc \in Idle
    /\ runs < MaxRuns
    /\ runs' = runs + 1
    /\ ForgetMember
    /\ calls' = {}
    /\ resumed' = FALSE
    /\ base' = IF pc = "done" THEN <<fs>> ELSE <<>>
    /\ crash' = IF pc \in {"crashed", "idle"} THEN crash ELSE <<>>
    /\ idx' = 0
    /\ IF inputFile = Absent
       THEN /\ pc' = "raised"
            /\ err' = <<"open", 0>>
            /\ configs' = <<>>
       ELSE /\ pc' = "loop"
            /\ err' = <<>>
            /\ configs' = Expand(inputFile[1])
    /\ UNCHANGED <<fs, inputFile, peer>>

\* Lines 106-111: the next sweep member is validated; a ValidationError is
\* printed and the loop variable keeps the raw mapping.
ValidateMember ==
    /\ pc = "loop"
    /\ idx < Len(configs)
    /\ idx' = idx + 1
    /\ calls' = calls \cup {<<idx + 1, "Config">>}
    /\ config' = IF IsValid(configs[idx + 1]) THEN <<Validate(configs[idx + 1])>> ELSE <<>>
    /\ pc' = "resolve"
    /\ runRoot' = <<>>
    /\ expRoot' = <<>>
    /\ splits' = <<>>
    /\ seen' = NotSeen
    /\ done' = {}
    /\ fresh' = FALSE
    /\ UNCHANGED <<fs, configs, err, base, crash, resumed, env>>

\* The mutant of EndSweep: an empty list of configurations is an error.
EndSweepRaisesOnEmpty ==
    /\ pc = "loop"
    /\ idx = Len(configs)
    /\ IF configs = <<>>
       THEN pc' = "raised" /\ err' = <<"EmptySweep", 0>>
       ELSE pc' = "done" /\ UNCHANGED err
    /\ ForgetMember
    /\ UNCHANGED <<fs, configs, idx, calls, base, crash, resumed, env>>

\* Line 106: the list is exhausted and the command returns.
EndSweep ==
    /\ pc = "loop"
    /\ idx = Len(configs)
    /\ pc' = "done"
    /\ ForgetMember
    /\ UNCHANGED <<fs, configs, idx, calls, err, base, crash, resumed, env>>

\* Line 113: DirectoryHelper(config_path, config). On a typed configuration it
\* materializes the root and persists the configuration. On the raw mapping
\* that a failed validation left in the loop variable it is outside its
\* contract: it raises, or it persists the mapping as it is.
Resolve ==
    /\ pc = "resolve"
    /\ calls' = calls \cup {<<idx, "DirectoryHelper">>}
    /\ \/ /\ LET content == ContentOf(config, configs[idx])
                 root == RootOf(ConfigPath, content)
             IN /\ fresh' = (root \notin DOMAIN fs)
                /\ fs' = Materialize(fs, root, content)
                /\ runRoot' = <<root>>
          /\ pc' = "reload"
          /\ UNCHANGED err
       \/ /\ config = <<>>
          /\ Raise("DirectoryHelper")
          /\ UNCHANGED <<fs, runRoot, fresh>>
    /\ UNCHANGED <<configs, idx, config, expRoot, splits, seen, done, base, crash,
                   resumed, env>>

\* The mutant of ReloadConfig: the in-memory object is passed on.
ReloadConfigInMemory(mem, file) == [raised |-> FALSE, config |-> mem]

\* Lines 116-118: the persisted mapping is read and validated again, outside
\* any try.
ReloadConfig(mem, file) ==
    IF IsValid(file[1])
    THEN [raised |-> FALSE, config |-> <<Validate(file[1])>>]
    ELSE [raised |-> TRUE, config |-> mem]

Reload ==
    /\ pc = "reload"
    /\ calls' = calls \cup {<<idx, "Config_reload">>}
    /\ LET r == ReloadConfig(config, fs[runRoot[1]].config_file)
       IN IF r.raised
          THEN Raise("Config_reload") /\ UNCHANGED config
          ELSE pc' = "enter" /\ config' = r.config /\ UNCHANGED err
    /\ UNCHANGED <<fs, configs, idx, runRoot, expRoot, splits, seen, done, fresh,
                   base, crash, resumed, env>>

\* ---------------------------------------------------------------- run_one_experiment
\* The artifacts of the experiment the pipeline works on.
Here == fs[expRoot[1]]

\* Line 50: not dataset_path.exists()
DatasetMissing(d) == ~Exists(d.dataset)

\* The mutant of WeightsMissing: the second "not" is dropped.
WeightsMissingDroppedNot(d) == ~d.weights.exists \/ AnyIterdir(d.weights)

\* The mutant of WeightsMissing: weights without the saved adapter are taken
\* as missing.
WeightsMissingUnlessAdapter(d) == ~d.weights.exists \/ "adapter" \notin d.weights.files

\* Line 66: not weights_path.exists() or not any(weights_path.iterdir())
WeightsMissing(d) == ~d.weights.exists \/ ~AnyIterdir(d.weights)

\* The mutant of ResultsMissing: inference is run only with weights there.
ResultsMissingGatedOnWeights(d) == ~Exists(d.results_file) /\ AnyIterdir(d.weights)

\* Line 79: not results_file_path.exists()
ResultsMissing(d) == ~Exists(d.results_file)

\* The mutant of PipelineRoot: the root is derived from the mapping as the
\* input file gave it, not from the configuration handed over.
PipelineRootOfRaw(cfg, raw) == RootOf(ConfigPath, raw)

\* The mutant of PipelineRoot: the swept parameter a does not reach the root.
PipelineRootSharedDir(cfg, raw) ==
    RootOf(ConfigPath, [ContentOf(cfg, raw) EXCEPT !.a = <<1>>])

\* The mutant of PipelineRoot: the root is derived from where the reloaded
\* configuration was read, not from config_path.
PipelineRootOfConfigFile(cfg, raw) == RootOf("config_file", ContentOf(cfg, raw))

\* Line 38: the root of DirectoryHelper(config_path, config).
PipelineRoot(cfg, raw) == RootOf(ConfigPath, ContentOf(cfg, raw))

\* The mutant of EnterPipeline: the pipeline is started detached and the loop
\* goes on at once.
EnterPipelineDetached ==
    /\ pc = "enter"
    /\ calls' = calls \cup {<<idx, "run_one_experiment">>}
    /\ pc' = "loop"
    /\ UNCHANGED <<fs, configs, idx, config, runRoot, expRoot, splits, seen, done,
                   err, fresh, base, crash, resumed, env>>

\* The mutant of EnterPipeline: the dataset generator is not constructed on
\* entry.
EnterPipelineLazy ==
    /\ pc = "enter"
    /\ calls' = calls \cup {<<idx, "run_one_experiment">>}
    /\ LET content == ContentOf(config, configs[idx])
           root == RootOf(ConfigPath, content)
       IN /\ fs' = Materialize(fs, root, content)
          /\ expRoot' = <<root>>
    /\ pc' = "dataset"
    /\ UNCHANGED <<configs, idx, config, runRoot, splits, seen, done, err, fresh,
                   base, crash, resumed, env>>

\* Lines 37-47: run_one_experiment is entered, resolves its own paths from the
\* configuration it was handed and constructs the dataset generator.
EnterPipeline ==
    /\ pc = "enter"
    /\ calls' = calls \cup {<<idx, "run_one_experiment">>, <<idx, "DatasetGenerator">>}
    /\ LET content == ContentOf(config, configs[idx])
           root == PipelineRoot(config, configs[idx])
       IN /\ fs' = Materialize(fs, root, content)
          /\ expRoot' = <<root>>
          /\ resumed' = (resumed \/ (/\ crash # <<>>
                                     /\ root = crash[1].root
                                     /\ IsValid(crash[1].file)
                                     /\ config = <<Validate(crash[1].file)>>))
    /\ \/ pc' = "dataset" /\ UNCHANGED err
       \/ Raise("DatasetGenerator")
    /\ UNCHANGED <<configs, idx, config, runRoot, splits, seen, done, fresh, base,
                   crash, env>>

\* Lines 49-55: the dataset is loaded when paths.dataset exists.
DatasetStage ==
    /\ pc = "dataset"
    /\ seen' = [seen EXCEPT !.dataset = <<Here.dataset>>]
    /\ IF DatasetMissing(Here)
       THEN /\ pc' = "get_dataset"
            /\ UNCHANGED <<splits, done, calls>>
       ELSE /\ calls' = calls \cup {<<idx, "load_dataset_from_pickle">>}
            /\ splits' = Here.dataset[1]
            /\ done' = done \cup {"dataset"}
            /\ pc' = "display"
    /\ UNCHANGED <<fs, configs, idx, config, runRoot, expRoot, err, fresh, base,
                   crash, resumed, env>>

\* Line 51: dataset_generator.get_dataset() returns the splits or raises.
GetDataset ==
    /\ pc = "get_dataset"
    /\ calls' = calls \cup {<<idx, "get_dataset">>}
    /\ \/ /\ \E train \in TrainSplits, test \in TestSplits : splits' = <<train, test>>
          /\ pc' = "save_dataset"
          /\ UNCHANGED err
       \/ Raise("get_dataset") /\ UNCHANGED splits
    /\ UNCHANGED <<fs, configs, idx, config, runRoot, expRoot, seen, done, fresh,
                   base, crash, resumed, env>>

\* Line 52: dataset_generator.save_dataset(dataset_path) writes paths.dataset
\* or raises.
SaveDataset ==
    /\ pc = "save_dataset"
    /\ calls' = calls \cup {<<idx, "save_dataset">>}
    /\ \/ /\ fs' = [fs EXCEPT ![expRoot[1]].dataset = <<splits>>]
          /\ done' = done \cup {"dataset"}
          /\ pc' = "display"
          /\ UNCHANGED err
       \/ Raise("save_dataset") /\ UNCHANGED <<fs, done>>
    /\ UNCHANGED <<configs, idx, config, runRoot, expRoot, splits, seen, fresh,
                   base, crash, resumed, env>>

\* Lines 57-58: train[0] and test[0] are displayed; indexing an empty split
\* raises IndexError.
Display ==
    /\ pc = "display"
    /\ IF splits[1] = <<>> \/ splits[2] = <<>>
       THEN Raise("display")
       ELSE pc' = "weights" /\ UNCHANGED err
    /\ UNCHANGED <<fs, configs, idx, config, runRoot, expRoot, splits, calls, seen,
                   done, fresh, base, crash, resumed, env>>

\* The mutant of FinetuneStage: the check waits while another process
\* fine-tunes into the same root.
FinetuneStageLocked ==
    /\ pc = "weights"
    /\ ~(peer.root = expRoot /\ peer.pc \in {"finetune", "save_model"})
    /\ seen' = [seen EXCEPT !.finetune = <<Here.weights>>]
    /\ IF WeightsMissing(Here)
       THEN /\ calls' = calls \cup {<<idx, "LoRAFinetune">>}
            /\ pc' = "finetune"
            /\ UNCHANGED done
       ELSE /\ done' = done \cup {"finetune"}
            /\ pc' = "results"
            /\ UNCHANGED calls
    /\ UNCHANGED <<fs, configs, idx, config, runRoot, expRoot, splits, err, fresh,
                   base, crash, resumed, env>>

\* Lines 63-67 and 72-73: fine-tuning is skipped when paths.weights holds a file.
FinetuneStage ==
    /\ pc = "weights"
    /\ seen' = [seen EXCEPT !.finetune = <<Here.weights>>]
    /\ IF WeightsMissing(Here)
       THEN /\ calls' = calls \cup {<<idx, "LoRAFinetune">>}
            /\ pc' = "finetune"
            /\ UNCHANGED done
       ELSE /\ done' = done \cup {"finetune"}
            /\ pc' = "results"
            /\ UNCHANGED calls
    /\ UNCHANGED <<fs, configs, idx, config, runRoot, expRoot, splits, err, fresh,
                   base, crash, resumed, env>>

\* Lines 68-69: finetuner.finetune(train) writes its checkpoint into
\* paths.weights and returns, or raises with the checkpoint written or not.
Finetune ==
    /\ pc = "finetune"
    /\ calls' = calls \cup {<<idx, "finetune">>}
    /\ LET written == [fs EXCEPT ![expRoot[1]].weights =
                          [exists |-> TRUE, files |-> @.files \cup {"checkpoint"}]]
       IN \/ fs' = written /\ pc' = "save_model" /\ UNCHANGED err
          \/ fs' \in {fs, written} /\ Raise("finetune")
    /\ UNCHANGED <<configs, idx, config, runRoot, expRoot, splits, seen, done, fresh,
                   base, crash, resumed, env>>

\* Lines 70-71: finetuner.save_model() writes the adapter into paths.weights
\* or raises.
SaveModel ==
    /\ pc = "save_model"
    /\ calls' = calls \cup {<<idx, "save_model">>}
    /\ \/ /\ fs' = [fs EXCEPT ![expRoot[1]].weights =
                        [exists |-> TRUE, files |-> @.files \cup {"adapter"}]]
          /\ done' = done \cup {"finetune"}
          /\ pc' = "results"
          /\ UNCHANGED err
       \/ Raise("save_model") /\ UNCHANGED <<fs, done>>
    /\ UNCHANGED <<configs, idx, config, runRoot, expRoot, splits, seen, fresh,
                   base, crash, resumed, env>>

\* Lines 76-80 and 83-84: inference is skipped when paths.results_file exists.
InferenceStage ==
    /\ pc = "results"
    /\ seen' = [seen EXCEPT !.inference = <<Here.results_file>>]
    /\ IF ResultsMissing(Here)
       THEN /\ calls' = calls \cup {<<idx, "LoRAInference">>}
            /\ pc' = "infer_all"
            /\ UNCHANGED done
       ELSE /\ done' = done \cup {"inference"}
            /\ pc' = "loop"
            /\ UNCHANGED calls
    /\ UNCHANGED <<fs, configs, idx, config, runRoot, expRoot, splits, err, fresh,
                   base, crash, resumed, env>>

\* Lines 81-82: inference_runner.infer_all() writes paths.results_file from
\* the test split, or raises.
InferAll ==
    /\ pc = "infer_all"
    /\ calls' = calls \cup {<<idx, "infer_all">>}
    /\ \/ /\ fs' = [fs EXCEPT ![expRoot[1]].results_file = <<splits[2]>>]
          /\ done' = done \cup {"inference"}
          /\ pc' = "loop"
          /\ UNCHANGED err
       \/ Raise("infer_all") /\ UNCHANGED <<fs, done>>
    /\ UNCHANGED <<configs, idx, config, runRoot, expRoot, splits, seen, fresh,
                   base, crash, resumed, env>>

\* ---------------------------------------------------------------- environment
\* The process is killed. When config_file of the current member is written,
\* the crash is one a later run retries.
Crash ==
    /\ pc \notin Idle
    /\ pc' = "crashed"
    /\ crash' = IF pc \in AfterResolve
                THEN <<[idx |-> idx, root |-> runRoot[1],
                        file |-> fs[runRoot[1]].config_file[1],
                        input |-> inputFile]>>
                ELSE <<>>
    /\ ForgetRun
    /\ UNCHANGED <<fs, env>>

\* Between two runs the user touches the files once; of the last run only
\* the record of its crash is left.
Touch ==
    /\ pc \in {"done", "raised", "crashed"}
    /\ runs < MaxRuns
    /\ pc' = "idle"
    /\ crash' = IF pc = "crashed" THEN crash ELSE <<>>
    /\ ForgetRun
    /\ UNCHANGED <<runs, peer>>

\* Between two runs the user deletes the input file.
DeleteInput ==
    /\ Touch
    /\ inputFile # Absent
    /\ inputFile' = Absent
    /\ UNCHANGED fs

\* Between two runs the user edits the non-swept field of the input file.
EditInput ==
    /\ Touch
    /\ inputFile # Absent
    /\ \E c \in CValues \ {inputFile[1].c} :
        inputFile' = <<[inputFile[1] EXCEPT !.c = c]>>
    /\ UNCHANGED fs

\* Between two runs the user removes artifacts of one experiment: the dataset,
\* the results file, the weights directory or only the files in it.
RemoveArtifact ==
    /\ Touch
    /\ \E r \in DOMAIN fs, d \in BOOLEAN, w \in {"keep", "rmtree", "empty"}, res \in BOOLEAN :
        /\ d \/ res \/ w # "keep"
        /\ d => Exists(fs[r].dataset)
        /\ res => Exists(fs[r].results_file)
        /\ w = "rmtree" => fs[r].weights.exists
        /\ w = "empty" => AnyIterdir(fs[r].weights)
        /\ fs' = [fs EXCEPT ![r] =
                    [config_file |-> @.config_file,
                     dataset |-> IF d THEN Absent ELSE @.dataset,
                     weights |-> CASE w = "keep" -> @.weights
                                   [] w = "rmtree" -> NoDir
                                   [] w = "empty" -> [exists |-> TRUE, files |-> {}],
                     results_file |-> IF res THEN Absent ELSE @.results_file]]
    /\ UNCHANGED inputFile

Next ==
    \/ StartRun \/ ValidateMember \/ EndSweep \/ Resolve \/ Reload
    \/ EnterPipeline \/ DatasetStage \/ GetDataset \/ SaveDataset \/ Display
    \/ FinetuneStage \/ Finetune \/ SaveModel \/ InferenceStage \/ InferAll
    \/ Crash \/ DeleteInput \/ EditInput \/ RemoveArtifact

Spec == Init /\ [][Next]_vars

\* One run of the command on an input that sweeps both parameters.
InitSweep ==
    /\ inputFile \in {<<r>> : r \in {x \in RawConfigs : x.c = "x"}}
    /\ fs = [r \in {} |-> EmptyRoot]
    /\ pc = "idle"
    /\ configs = <<>>
    /\ idx = 0
    /\ config = <<>>
    /\ runRoot = <<>>
    /\ expRoot = <<>>
    /\ splits = <<>>
    /\ runs = MaxRuns - 1
    /\ calls = {}
    /\ seen = NotSeen
    /\ done = {}
    /\ err = <<>>
    /\ fresh = FALSE
    /\ base = <<>>
    /\ crash = <<>>
    /\ resumed = FALSE
    /\ peer = NoPeer

NextSweep ==
    \/ StartRun \/ ValidateMember \/ EndSweep \/ Resolve \/ Reload
    \/ EnterPipeline \/ DatasetStage \/ GetDataset \/ SaveDataset \/ Display
    \/ FinetuneStage \/ Finetune \/ SaveModel \/ InferenceStage \/ InferAll
    \/ Crash

SpecSweep == InitSweep /\ [][NextSweep]_vars

\* ---------------------------------------------------------------- the trust boundary
\* Lines 68-69 with a fine-tuning collaborator outside its contract:
\* finetune(train) returns and has written nothing.
FinetuneWritesNothing ==
    /\ pc = "finetune"
    /\ calls' = calls \cup {<<idx, "finetune">>}
    /\ pc' = "save_model"
    /\ UNCHANGED <<fs, configs, idx, config, runRoot, expRoot, splits, seen, done,
                   err, fresh, base, crash, resumed, env>>

\* Lines 70-71 with a fine-tuning collaborator outside its contract:
\* save_model() returns and has written nothing.
SaveModelWritesNothing ==
    /\ pc = "save_model"
    /\ calls' = calls \cup {<<idx, "save_model">>}
    /\ done' = done \cup {"finetune"}
    /\ pc' = "results"
    /\ UNCHANGED <<fs, configs, idx, config, runRoot, expRoot, splits, seen, err,
                   fresh, base, crash, resumed, env>>

NextTrust ==
    \/ NextSweep
    \/ FinetuneWritesNothing
    \/ SaveModelWritesNothing

\* One run of the command with a fine-tuning collaborator that is not trusted
\* to write its weights.
SpecTrust == InitSweep /\ [][NextTrust]_vars

\* ---------------------------------------------------------------- a second process
\* run_one_experiment (lines 37-84) in a second process, started for the same
\* configuration while the first is in its pipeline: it resolves the same
\* root and works on the same files.
PeerHere == fs[peer.root[1]]

\* The second process leaves every variable of the first alone.
PeerOnly == UNCHANGED <<prog, hist, inputFile, runs>>

\* Lines 37-47 in the second process.
PeerEnter ==
    /\ peer.pc = "off"
    /\ pc \in InPipeline
    /\ peer' = [pc |-> "dataset", root |-> expRoot, splits |-> <<>>,
                calls |-> {"DatasetGenerator"}]
    /\ UNCHANGED fs
    /\ PeerOnly

\* Lines 49-55 in the second process.
PeerDatasetStage ==
    /\ peer.pc = "dataset"
    /\ IF DatasetMissing(PeerHere)
       THEN peer' = [peer EXCEPT !.pc = "get_dataset"]
       ELSE peer' = [peer EXCEPT !.pc = "display", !.splits = PeerHere.dataset[1],
                                 !.calls = @ \cup {"load_dataset_from_pickle"}]
    /\ UNCHANGED fs
    /\ PeerOnly

\* Line 51 in the second process.
PeerGetDataset ==
    /\ peer.pc = "get_dataset"
    /\ \/ \E train \in TrainSplits, test \in TestSplits :
             peer' = [peer EXCEPT !.pc = "save_dataset", !.splits = <<train, test>>,
                                  !.calls = @ \cup {"get_dataset"}]
       \/ peer' = [peer EXCEPT !.pc = "raised", !.calls = @ \cup {"get_dataset"}]
    /\ UNCHANGED fs
    /\ PeerOnly

\* Line 52 in the second process.
PeerSaveDataset ==
    /\ peer.pc = "save_dataset"
    /\ \/ /\ fs' = [fs EXCEPT ![peer.root[1]].dataset = <<peer.splits>>]
          /\ peer' = [peer EXCEPT !.pc = "display", !.calls = @ \cup {"save_dataset"}]
       \/ /\ peer' = [peer EXCEPT !.pc = "raised", !.calls = @ \cup {"save_dataset"}]
          /\ UNCHANGED fs
    /\ PeerOnly

\* Lines 57-58 in the second process.
PeerDisplay ==
    /\ peer.pc = "display"
    /\ peer' = [peer EXCEPT !.pc = IF peer.splits[1] = <<>> \/ peer.splits[2] = <<>>
                                   THEN "raised" ELSE "weights"]
    /\ UNCHANGED fs
    /\ PeerOnly

\* Lines 63-67 and 72-73 in the second process.
PeerFinetuneStage ==
    /\ peer.pc = "weights"
    /\ IF WeightsMissing(PeerHere)
       THEN peer' = [peer EXCEPT !.pc = "finetune", !.calls = @ \cup {"LoRAFinetune"}]
       ELSE peer' = [peer EXCEPT !.pc = "results"]
    /\ UNCHANGED fs
    /\ PeerOnly

\* Lines 68-69 in the second process.
PeerFinetune ==
    /\ peer.pc = "finetune"
    /\ LET written == [fs EXCEPT ![peer.root[1]].weights =
                          [exists |-> TRUE, files |-> @.files \cup {"checkpoint"}]]
       IN \/ /\ fs' = written
             /\ peer' = [peer EXCEPT !.pc = "save_model", !.calls = @ \cup {"finetune"}]
          \/ /\ fs' \in {fs, written}
             /\ peer' = [peer EXCEPT !.pc = "raised", !.calls = @ \cup {"finetune"}]
    /\ PeerOnly

\* Lines 70-71 in the second process.
PeerSaveModel ==
    /\ peer.pc = "save_model"
    /\ \/ /\ fs' = [fs EXCEPT ![peer.root[1]].weights =
                        [exists |-> TRUE, files |-> @.files \cup {"adapter"}]]
          /\ peer' = [peer EXCEPT !.pc = "results", !.calls = @ \cup {"save_model"}]
       \/ /\ peer' = [peer EXCEPT !.pc = "raised", !.calls = @ \cup {"save_model"}]
          /\ UNCHANGED fs
    /\ PeerOnly

\* Lines 76-80 and 83-84 in the second process.
PeerInferenceStage ==
    /\ peer.pc = "results"
    /\ IF ResultsMissing(PeerHere)
       THEN peer' = [peer EXCEPT !.pc = "infer_all", !.calls = @ \cup {"LoRAInference"}]
       ELSE peer' = [peer EXCEPT !.pc = "returned"]
    /\ UNCHANGED fs
    /\ PeerOnly

\* Lines 81-82 in the second process.
PeerInferAll ==
    /\ peer.pc = "infer_all"
    /\ \/ /\ fs' = [fs EXCEPT ![peer.root[1]].results_file = <<peer.splits[2]>>]
          /\ peer' = [peer EXCEPT !.pc = "returned", !.calls = @ \cup {"infer_all"}]
       \/ /\ peer' = [peer EXCEPT !.pc = "raised", !.calls = @ \cup {"infer_all"}]
          /\ UNCHANGED fs
    /\ PeerOnly

\* One run of the command on one valid configuration without ablation.
InitRace ==
    /\ InitSweep
    /\ IsValid(inputFile[1])
    /\ ~UseAblate(inputFile[1])

NextRace ==
    \/ NextSweep
    \/ PeerEnter \/ PeerDatasetStage \/ PeerGetDataset \/ PeerSaveDataset
    \/ PeerDisplay \/ PeerFinetuneStage \/ PeerFinetune \/ PeerSaveModel
    \/ PeerInferenceStage \/ PeerInferAll

\* Two processes run the pipeline for the same configuration.
SpecRace == InitRace /\ [][NextRace]_vars

\* The calls that do a stage's work, as opposed to loading what is there.
WorkCalls ==
    {"get_dataset", "save_dataset", "LoRAFinetune", "finetune", "save_model",
     "LoRAInference", "infer_all"}

\* The calls into the stage collaborators.
CollaboratorCalls == WorkCalls \cup {"DatasetGenerator", "load_dataset_from_pickle"}

\* ---------------------------------------------------------------- retries
\* The process is killed between two stage steps, where no stage has a
\* half-written artifact, and a retry is still to come.
CrashBetweenStages ==
    /\ pc \in {"dataset", "display", "weights", "results"}
    /\ runs < MaxRuns
    /\ Crash

\* The steps of the run command.
RunStep ==
    \/ StartRun \/ ValidateMember \/ EndSweep \/ Resolve \/ Reload
    \/ EnterPipeline \/ DatasetStage \/ GetDataset \/ SaveDataset \/ Display
    \/ FinetuneStage \/ Finetune \/ SaveModel \/ InferenceStage \/ InferAll

\* A step of the run command in which no collaborator raises.
QuietStep == RunStep /\ (err' # <<>> => err'[1] \notin CollaboratorCalls)

InitLive ==
    /\ Init
    /\ IsValid(inputFile[1])
    /\ ~UseAblate(inputFile[1])

\* Lines 98-105: the command is started once more after a run that ended with
\* an exception; these retries are not counted.
RetryAgain ==
    /\ pc = "raised"
    /\ runs = MaxRuns
    /\ inputFile # Absent
    /\ ForgetMember
    /\ calls' = {}
    /\ resumed' = FALSE
    /\ base' = <<>>
    /\ crash' = <<>>
    /\ idx' = 0
    /\ pc' = "loop"
    /\ err' = <<>>
    /\ configs' = Expand(inputFile[1])
    /\ UNCHANGED <<fs, env>>

NextLive == QuietStep \/ RetryAgain \/ CrashBetweenStages

\* Runs and retries of the command on one valid configuration: collaborators
\* do not raise, the process is killed finitely often and only between stage
\* steps, a process that can take a step takes it, and a run that ended with
\* an exception is retried.
SpecLive == InitLive /\ [][NextLive]_vars /\ WF_vars(QuietStep \/ RetryAgain)

\* ---------------------------------------------------------------- claims
Called(i, callee) == <<i, callee>> \in calls

\* How many sweep members the pipeline was invoked for.
PipelineCalls == Cardinality({c \in calls : c[2] = "run_one_experiment"})

\* The pipeline of the current member returned.
Returned == pc = "loop" /\ idx >= 1

\* The pipeline of the current member ended and no collaborator raised.
EndedQuietly == Returned \/ (pc = "raised" /\ err[1] = "display")

\* C1: a run that starts right after a run that returned normally, with the
\* input file and the experiment directories untouched, does no stage's work,
\* finds every stage it reaches Done from the artifact, ends only by returning
\* (or by the dataset generator's constructor raising) and leaves every
\* artifact as the first run left it.
C1_SecondRunIsCacheHit ==
    base # <<>> =>
        /\ \A c \in calls : c[2] \notin WorkCalls
        /\ fs = base[1]
        /\ \A s \in Stages : seen[s] # <<>> => s \in done
        /\ (Returned => done = Stages)
        /\ (pc = "raised" => err[1] = "DatasetGenerator")
        /\ (pc = "done" => \A i \in 1..Len(configs) : Called(i, "run_one_experiment"))

C1_Witness ==
    /\ base # <<>>
    /\ pc = "done"
    /\ Len(configs) = 2
    /\ Called(2, "load_dataset_from_pickle")
    /\ \A r \in DOMAIN fs : Exists(fs[r].results_file)

\* The weights and the results file as the pipeline found them on entry: no
\* step before their stage writes them.
WeightsOnEntry == IF seen.finetune # <<>> THEN seen.finetune[1] ELSE Here.weights
ResultsOnEntry == IF seen.inference # <<>> THEN seen.inference[1] ELSE Here.results_file

\* C2: when the pipeline of a member ends and no collaborator raised, each
\* stage did its work exactly when it found its own artifact missing
\* (paths.dataset not there, paths.weights not there or empty,
\* paths.results_file not there); and when the pipeline was entered with the
\* dataset there and weights and results missing, the dataset was not
\* generated and fine-tuning and inference were both invoked.
C2_StageSkip ==
    EndedQuietly =>
        /\ seen.dataset # <<>> =>
              (Called(idx, "get_dataset") <=> seen.dataset[1] = Absent)
        /\ seen.finetune # <<>> =>
              (Called(idx, "finetune") <=>
                  (~seen.finetune[1].exists \/ seen.finetune[1].files = {}))
        /\ seen.inference # <<>> =>
              (Called(idx, "infer_all") <=> seen.inference[1] = Absent)
        /\ (/\ seen.dataset[1] # Absent
            /\ ~WeightsOnEntry.exists
            /\ ResultsOnEntry = Absent) =>
              /\ ~Called(idx, "get_dataset")
              /\ Called(idx, "finetune")
              /\ Called(idx, "infer_all")

\* C3: when a collaborator's call raises, the exception ends the run: the
\* stage is not Done, and no call of a later stage of that member was made.
C3_FailurePropagates ==
    (err # <<>> /\ err[1] \in CollaboratorCalls) =>
        /\ pc = "raised"
        /\ err[1] \in {"DatasetGenerator", "get_dataset", "save_dataset"} =>
              /\ done = {}
              /\ \A f \in {"LoRAFinetune", "finetune", "save_model", "LoRAInference",
                           "infer_all"} : ~Called(err[2], f)
        /\ err[1] \in {"finetune", "save_model"} =>
              /\ done = {"dataset"}
              /\ \A f \in {"LoRAInference", "infer_all"} : ~Called(err[2], f)
        /\ err[1] = "infer_all" => "inference" \notin done

C3_Witness ==
    /\ pc = "raised"
    /\ err[1] = "finetune"
    /\ Called(idx, "get_dataset")
    /\ Here.weights.files = {"checkpoint"}

\* C4: a pipeline that starts in a root that did not exist, with ablation
\* disabled, and in which no collaborator raises, returns with all three stages
\* Done, the generated splits in paths.dataset, paths.weights non-empty and
\* paths.results_file there.
C4_EndToEnd ==
    (/\ fresh
     /\ config # <<>>
     /\ ~config[1].use_ablate
     /\ pc \in InPipeline \cup {"loop", "raised"}
     /\ expRoot # <<>>) =>
        /\ pc = "raised" => err[1] \in CollaboratorCalls
        /\ Returned =>
              /\ done = Stages
              /\ Here.dataset = <<splits>>
              /\ Called(idx, "get_dataset")
              /\ AnyIterdir(Here.weights)
              /\ Exists(Here.results_file)

\* C5: when the validation of sweep member i fails, the run goes on to
\* validate member i+1.
C5_ValidationFailureContinues ==
    pc \in {"done", "raised"} =>
        \A i \in 1..(Len(configs) - 1) :
            (Called(i, "Config") /\ ~IsValid(configs[i])) => Called(i + 1, "Config")

\* The retry of a crash that happened with a valid config_file written ended
\* without a collaborator or the display raising.
RetryEnded ==
    /\ crash # <<>>
    /\ IsValid(crash[1].file)
    /\ \/ pc = "done"
       \/ pc = "raised" /\ err[1] \in {"open", "DirectoryHelper", "Config_reload"}

\* C6, as claimed: the retry of a crash resumes in the crashed member's root
\* with the configuration of the persisted copy, whatever became of the input
\* file.
C6_ResumeWhateverTheInput == RetryEnded => resumed

\* C6, amended: with the input file as it was at the crash, the retry reaches
\* the crashed member, resolves the same root, is handed the configuration
\* of the persisted copy, and does not end before that pipeline unless a
\* collaborator or the display of an earlier member raises.
C6_ResumeUnchangedInput ==
    (crash # <<>> /\ IsValid(crash[1].file) /\ inputFile = crash[1].input) =>
        /\ RetryEnded => resumed
        /\ (pc \in InPipeline /\ idx = crash[1].idx) =>
              /\ resumed
              /\ expRoot = <<crash[1].root>>
              /\ Here.config_file = <<crash[1].file>>
              /\ config = <<Validate(crash[1].file)>>

C6_Witness ==
    /\ crash # <<>>
    /\ inputFile = crash[1].input
    /\ pc = "weights"
    /\ idx = crash[1].idx
    /\ idx = 2
    /\ resumed
    /\ Called(idx, "load_dataset_from_pickle")

\* C7: while run_one_experiment is entered or a stage is at work, the root of
\* line 113 exists, its config_file is written, and the configuration at hand
\* is the validated content of that file.
C7_CheckpointBeforeStages ==
    pc \in {"enter"} \cup InPipeline =>
        /\ runRoot # <<>>
        /\ runRoot[1] \in DOMAIN fs
        /\ Exists(fs[runRoot[1]].config_file)
        /\ IsValid(fs[runRoot[1]].config_file[1])
        /\ config = <<Validate(fs[runRoot[1]].config_file[1])>>

C7_Witness ==
    /\ pc = "dataset"
    /\ fresh
    /\ inputFile[1].ablation = "no_flag"
    /\ fs[runRoot[1]].config_file[1].ablation = "false"

\* C8: the roots of two sweep members whose configurations differ are
\* different, and a step of the pipeline of one member leaves every other
\* root as it is.
C8_Isolation ==
    [][(pc \in {"enter"} \cup InPipeline /\ config # <<>>) =>
          LET own == RootOf(ConfigPath, model_dump(config[1]))
          IN /\ \A r \in DOMAIN fs :
                  r # own => (r \in DOMAIN fs' /\ fs'[r] = fs[r])
             /\ \A j \in 1..Len(configs) :
                  (IsValid(configs[j]) /\ Validate(configs[j]) # config[1]) =>
                      RootOf(ConfigPath, model_dump(Validate(configs[j]))) # own]_vars

C8_Witness ==
    /\ pc = "infer_all"
    /\ idx = 2
    /\ Cardinality(DOMAIN fs) = 2
    /\ \E r \in DOMAIN fs : r # expRoot[1] /\ Exists(fs[r].results_file)

\* C9, as claimed: with ablation disabled, a run that ended worked on the
\* one-element list of the loaded input and invoked the pipeline exactly once.
C9_OnePipelineCall ==
    (pc \in {"done", "raised"} /\ inputFile # Absent /\ ~UseAblate(inputFile[1])) =>
        /\ configs = <<inputFile[1]>>
        /\ PipelineCalls = 1

\* C9, amended: with ablation disabled the run works on the one-element list
\* of the loaded input; the pipeline is invoked at most once, and when the
\* run ended it was invoked exactly once if the input passes validation and
\* not at all if it does not.
C9_IdentityExpansion ==
    (pc \notin {"idle", "crashed"} /\ inputFile # Absent /\ ~UseAblate(inputFile[1])) =>
        /\ configs = <<inputFile[1]>>
        /\ PipelineCalls <= 1
        /\ pc \in {"done", "raised"} =>
              PipelineCalls = (IF IsValid(inputFile[1]) THEN 1 ELSE 0)

C9_Witness ==
    /\ pc = "done"
    /\ inputFile # Absent
    /\ inputFile[1].ablation = "no_section"
    /\ PipelineCalls = 1

\* The cross-product of the candidate lists of the input, every other field
\* as in the input.
CrossProduct(raw) ==
    {[raw EXCEPT !.a = <<raw.a[i]>>, !.b = <<raw.b[j]>>] :
        i \in 1..Len(raw.a), j \in 1..Len(raw.b)}

\* The list holds each configuration of the cross-product once.
IsCrossProduct(list, raw) ==
    /\ Len(list) = Len(raw.a) * Len(raw.b)
    /\ {list[k] : k \in 1..Len(list)} = CrossProduct(raw)
    /\ \A k \in 1..Len(list) : list[k].c = raw.c /\ list[k].ablation = raw.ablation

\* C10, as claimed: with ablation enabled, a run that ended worked on the
\* cross-product and invoked the pipeline for every configuration of it.
C10_PipelinePerMember ==
    (pc \in {"done", "raised"} /\ inputFile # Absent /\ UseAblate(inputFile[1])) =>
        /\ IsCrossProduct(configs, inputFile[1])
        /\ \A i \in 1..Len(configs) : Called(i, "run_one_experiment")

\* C10, amended: with ablation enabled the run works on the cross-product;
\* the pipeline is invoked for the members in order, no member beyond the
\* current one, and for every member when the run returns normally.
C10_CrossProduct ==
    (pc \notin {"idle", "crashed"} /\ inputFile # Absent /\ UseAblate(inputFile[1])) =>
        /\ IsCrossProduct(configs, inputFile[1])
        /\ \A i \in 1..Len(configs) :
              /\ Called(i, "run_one_experiment") => i <= idx
              /\ i < idx => Called(i, "run_one_experiment")
        /\ pc = "done" => \A i \in 1..Len(configs) : Called(i, "run_one_experiment")

C10_Witness ==
    /\ pc = "done"
    /\ inputFile[1].a = <<1, 2>>
    /\ inputFile[1].b = <<1, 2>>
    /\ PipelineCalls = 4
    /\ Cardinality(DOMAIN fs) = 4

\* The calls of the fine-tuning stage and of the inference stage.
FinetuneCalls == {"LoRAFinetune", "finetune", "save_model"}
InferenceCalls == {"LoRAInference", "infer_all"}

\* C11: the loop moves from sweep member i to member i+1 only when the
\* pipeline of member i has returned with all three stages Done; every call a
\* step makes is a call of the current member; and a call of a stage is made
\* only when the stages before it are Done.
C11_SequentialOrder ==
    [][/\ (idx >= 1 /\ idx' # idx /\ idx' # 0) =>
              (idx' = idx + 1 /\ pc = "loop" /\ done = Stages)
       /\ \A c \in calls' \ calls :
              /\ c[1] = idx'
              /\ c[2] \in FinetuneCalls => "dataset" \in done
              /\ c[2] \in InferenceCalls => {"dataset", "finetune"} \subseteq done]_vars

C11_Witness ==
    /\ idx = 2
    /\ pc = "finetune"
    /\ Called(1, "infer_all")
    /\ Called(2, "LoRAFinetune")

\* C12: when a stage's collaborator raises in sweep member i, the run has
\* ended at member i: no later member was validated, resolved or entered.
C12_StageFailureAbortsSweep ==
    (err # <<>> /\ err[1] \in CollaboratorCalls) =>
        /\ pc = "raised"
        /\ idx = err[2]
        /\ \A c \in calls : c[1] <= err[2]

C12_Witness ==
    /\ pc = "raised"
    /\ err = <<"save_model", 1>>
    /\ Len(configs) = 2
    /\ IsValid(configs[2])
    /\ Cardinality(DOMAIN fs) = 1

\* C13: once the dataset stage is Done, whether it loaded or generated the
\* splits, both splits are in memory, each holds an example for the display,
\* and the pipeline does not end at the display.
C13_Stage1Postcondition ==
    "dataset" \in done =>
        /\ Len(splits) = 2
        /\ splits[1] # <<>>
        /\ splits[2] # <<>>
        /\ pc = "raised" => err[1] # "display"

\* C14, as claimed: the dataset generator is constructed only when
\* paths.dataset is not there, and its constructor raising never ends a
\* pipeline that finds paths.dataset.
C14_ConstructedOnlyOnMiss ==
    /\ (pc = "dataset" /\ Called(idx, "DatasetGenerator")) => DatasetMissing(Here)
    /\ (pc = "raised" /\ err[1] = "DatasetGenerator") => DatasetMissing(Here)

\* C14, amended: the dataset generator is constructed before paths.dataset is
\* looked at, on both branches; when paths.dataset is there the splits are
\* loaded from it and neither get_dataset nor save_dataset is called, and
\* when it is not there the splits are never loaded.
C14_ConstructedOnBothBranches ==
    /\ pc \in InPipeline => Called(idx, "DatasetGenerator")
    /\ seen.dataset # <<>> =>
          IF seen.dataset[1] # Absent
          THEN /\ Called(idx, "load_dataset_from_pickle")
               /\ ~Called(idx, "get_dataset")
               /\ ~Called(idx, "save_dataset")
          ELSE ~Called(idx, "load_dataset_from_pickle")

C14_Witness ==
    /\ pc = "display"
    /\ Called(idx, "DatasetGenerator")
    /\ Called(idx, "load_dataset_from_pickle")
    /\ seen.dataset[1] # Absent

\* C15: a stage that finds its artifact there, whatever it holds, is skipped:
\* with a file in paths.weights, be it only the checkpoint of an interrupted
\* fine-tuning, no call of the fine-tuning stage is made, the weights stay as
\* found and the pipeline goes on to inference; with paths.dataset there the
\* splits are the loaded ones and nothing is generated; with
\* paths.results_file there inference is not run.
C15_NoPartialArtifactDetection ==
    /\ (seen.finetune # <<>> /\ AnyIterdir(seen.finetune[1])) =>
          /\ \A f \in FinetuneCalls : ~Called(idx, f)
          /\ "finetune" \in done
          /\ Here.weights = seen.finetune[1]
          /\ pc \in {"results", "infer_all", "loop", "raised"}
          /\ pc = "raised" => err[1] = "infer_all"
    /\ (seen.dataset # <<>> /\ seen.dataset[1] # Absent) =>
          /\ ~Called(idx, "get_dataset")
          /\ ~Called(idx, "save_dataset")
          /\ "dataset" \in done
          /\ splits = seen.dataset[1][1]
    /\ (seen.inference # <<>> /\ seen.inference[1] # Absent) =>
          /\ \A f \in InferenceCalls : ~Called(idx, f)
          /\ "inference" \in done
          /\ Here.results_file = seen.inference[1]

C15_Witness ==
    /\ pc = "infer_all"
    /\ Here.weights.files = {"checkpoint"}
    /\ seen.finetune[1].files = {"checkpoint"}
    /\ ~Called(idx, "finetune")
    /\ ~Called(idx, "save_model")

\* C16: a step that leaves the results check with paths.results_file not
\* there goes to infer_all (or is the crash of the process), whatever is in
\* paths.weights; and infer_all is only ever reached that way.
C16_InferenceNotGatedOnWeights ==
    /\ [][(pc = "results" /\ pc' # "results" /\ ~Exists(Here.results_file)) =>
              \/ pc' = "crashed"
              \/ pc' = "infer_all" /\ <<idx, "LoRAInference">> \in calls']_vars
    /\ [](pc = "infer_all" => seen.inference = <<Absent>>)

C16_Witness ==
    /\ pc = "infer_all"
    /\ ~AnyIterdir(Here.weights)
    /\ Called(idx, "finetune")
    /\ Called(idx, "save_model")
    /\ "finetune" \in done

\* The second process works in the root of the first.
SameRoot == expRoot # <<>> /\ peer.root = expRoot

\* C17: nothing keeps one process out of a stage the other is at work in:
\* a process at the check of a stage, with the artifact still missing while the
\* other process is between its own check and its write, can go on to do the
\* stage's work too. This holds for the dataset, the weights and the results,
\* and for either process.
C17_NoMutualExclusion ==
    /\ (/\ SameRoot /\ pc = "weights" /\ peer.pc \in {"finetune", "save_model"}
        /\ ~AnyIterdir(Here.weights)) => ENABLED (FinetuneStage /\ pc' = "finetune")
    /\ (/\ SameRoot /\ peer.pc = "weights" /\ pc \in {"finetune", "save_model"}
        /\ ~AnyIterdir(Here.weights)) =>
            ENABLED (PeerFinetuneStage /\ peer'.pc = "finetune")
    /\ (/\ SameRoot /\ pc = "dataset" /\ peer.pc \in {"get_dataset", "save_dataset"}
        /\ ~Exists(Here.dataset)) => ENABLED (DatasetStage /\ pc' = "get_dataset")
    /\ (/\ SameRoot /\ peer.pc = "dataset" /\ pc \in {"get_dataset", "save_dataset"}
        /\ ~Exists(Here.dataset)) =>
            ENABLED (PeerDatasetStage /\ peer'.pc = "get_dataset")
    /\ (/\ SameRoot /\ pc = "results" /\ peer.pc = "infer_all"
        /\ ~Exists(Here.results_file)) => ENABLED (InferenceStage /\ pc' = "infer_all")
    /\ (/\ SameRoot /\ peer.pc = "results" /\ pc = "infer_all"
        /\ ~Exists(Here.results_file)) =>
            ENABLED (PeerInferenceStage /\ peer'.pc = "infer_all")

\* Both processes generated the dataset, both found the weights missing, and
\* both are in finetune into the same paths.weights.
C17_Witness ==
    /\ SameRoot
    /\ pc = "finetune"
    /\ peer.pc = "finetune"
    /\ Called(idx, "save_dataset")
    /\ "save_dataset" \in peer.calls
    /\ ~AnyIterdir(Here.weights)

\* C18: a run whose expansion produced no configuration never raises and calls
\* nothing (no validation, no DirectoryHelper, no pipeline, no stage): it is at
\* the loop with nothing to iterate, from where it can return, or it has
\* returned.
C18_EmptySweep ==
    (pc \notin {"idle", "crashed"} /\ inputFile # Absent /\ Expand(inputFile[1]) = <<>>) =>
        /\ configs = <<>>
        /\ pc \in {"loop", "done"}
        /\ err = <<>>
        /\ calls = {}
        /\ pc = "loop" => ENABLED EndSweep

C18_Witness ==
    /\ pc = "done"
    /\ inputFile # Absent
    /\ UseAblate(inputFile[1])
    /\ inputFile[1].a = <<>>
    /\ configs = <<>>
    /\ calls = {}
    /\ runs = 1
    /\ DOMAIN fs = {}

ArtifactsStay ==
    \A r \in DOMAIN fs :
        /\ r \in DOMAIN fs'
        /\ Exists(fs[r].config_file) => Exists(fs'[r].config_file)
        /\ Exists(fs[r].dataset) => fs'[r].dataset = fs[r].dataset
        /\ AnyIterdir(fs[r].weights) => fs[r].weights.files \subseteq fs'[r].weights.files
        /\ Exists(fs[r].results_file) => fs'[r].results_file = fs[r].results_file

\* The pipeline has returned with all three stages Done.
AllDone == Returned /\ done = Stages

\* C20: no step deletes or empties an artifact, and the runs and retries
\* eventually reach the state where all three stages are Done.
C20_MonotoneProgress == [][ArtifactsStay]_vars /\ <>AllDone

\* The part of C20 that holds: no step deletes or empties an artifact, and
\* the runs and retries eventually reach all three stages Done or end at the
\* display of an empty split.
C20_ProgressUnlessEmptySplit ==
    [][ArtifactsStay]_vars /\ <>(AllDone \/ (pc = "raised" /\ err[1] = "display"))

====
